---- MODULE Spec2Model ----
(***************************************************************************)
(* Model of the paginated extraction engine of contratos-gov-etl:          *)
(* extract_data of src/extract_teste.py and of src/extract.py, one sweep   *)
(* of one endpoint, step by step: the request of a page, the server's      *)
(* answer (records, an empty page, a transport/status failure, a body that *)
(* is not a JSON object), the retry with its backoff and the budget check. *)
(* Then the callers of extract_data: the quarter sweeps, the one-shot       *)
(* extractions of extract.py and the related-entity lookups of             *)
(* extract_teste.py, each stepping from one extract_data call to the next. *)
(***************************************************************************)
EXTENDS Integers, Sequences, FiniteSets, TLC

\* ------------------------------------------------------------------ bounds
MaxRecords == 3       \* small budgets max_records range over 1..MaxRecords
MaxTamanho == 2       \* explicit tamanhoPagina values range over 1..MaxTamanho
MaxRetriesBound == 3  \* max_retries ranges over 1..MaxRetriesBound
MaxN == 3             \* a static server dataset holds 0..MaxN records
MaxKeys == 2          \* a key list passed to a lookup function holds 0..MaxKeys keys
MaxRows == 2          \* the primary records hold 0..MaxRows rows
MaxUasgSweeps == 3    \* extract_uasg_por_codigo counts that many sweeps

\* ------------------------------------------------------ program constants
DefaultTamanhoPagina == 500   \* params.setdefault("tamanhoPagina", 500)
ApproxPageSize == 100         \* extract.py: page_size of the other endpoints
BackoffUnit == 5              \* wait_time = (retry + 1) * 5   (seconds)
CourtesyDelayMs == 500        \* time.sleep(0.5)
DefaultMaxRetries == 3        \* def extract_data(..., max_retries=3)
CpfMaxLen == 11               \* elif len(ni_str) <= 11
tamanho_pagina == 500         \* extract_uasg_por_codigo: tamanho_pagina = 500
AllRecords == 1000000         \* extract.py: max_records = 1000000 when None

Variants == {"teste", "extract"}
endpoint_contratos == "modulo-contratos/1_consultarContratos"
endpoint_uasg == "modulo-uasg/1_consultarUasg"
Endpoints == {endpoint_contratos, endpoint_uasg}

\* params as the callers pass it: without pagina (0), or with a pagina of the
\* caller's own page counter (extract_uasg_por_codigo).
CallerPagina == {0, 2}

\* Budgets of a size that only a page of ApproxPageSize or more makes feasible.
LargeBudgets == {ApproxPageSize, 2 * ApproxPageSize}
Budgets == (1..MaxRecords) \cup LargeBudgets

Min(a, b) == IF a <= b THEN a ELSE b
Max(a, b) == IF a >= b THEN a ELSE b

VARIABLES
    variant,        \* which source file's extract_data runs
    endpoint,       \* argument endpoint
    max_records,    \* argument max_records
    max_retries,    \* argument max_retries
    params,         \* the query parameters; a field that is 0 is absent
    server,         \* [mode, n]: a static dataset of n records, or any answers
    page_size,      \* local page_size
    max_pages,      \* local max_pages
    all_data,       \* local all_data: sequence of records <<page, index>>
    total_records,  \* local total_records
    current_page,   \* loop variable of the for over pages
    retry,          \* loop variable of the for over attempts
    pc,             \* "start", "attempt", "wait", "done"
    log,            \* what the sweep did so far: requests, answers, sleeps
    failures,       \* the kinds of failure the requests of the sweep met
    returned,       \* the list extract_data returned (<<>> until it returns)
    raised,         \* TRUE when extract_data ended by an exception
    filtros,        \* the endpoint's filter parameters in params (a record)
    cpc,            \* where the caller of extract_data stands ("none": no caller)
    args,           \* the arguments of the function called from outside
    loc,            \* the locals of the caller that is running
    saida,          \* what the callers returned so far
    hist            \* the sweeps the callers ran so far, in order

\* The state of the callers of extract_data.
callervars == <<cpc, args, loc, saida, hist>>

vars == <<variant, endpoint, max_records, max_retries, params, server, page_size,
          max_pages, all_data, total_records, current_page, retry, pc, log,
          failures, returned, raised, filtros, callervars>>

\* ------------------------------------------------------------- log events
Event(ev, pagina, tamanho, n, ms) ==
    [ev |-> ev, pagina |-> pagina, tamanhoPagina |-> tamanho, n |-> n, ms |-> ms]
GetEvent(p, f) ==
    Event("get", p.pagina, p.tamanhoPagina, 0, 0) @@ [filtros |-> f, endpoint |-> endpoint]
OkEvent(pagina, n) == Event("ok", pagina, 0, n, 0)
ErrEvent(pagina) == Event("err", pagina, 0, 0, 0)
UncaughtEvent(pagina) == Event("uncaught", pagina, 0, 0, 0)
SleepEvent(pagina, ms) == Event("sleep", pagina, 0, 0, ms)

\* time.sleep(seconds), recorded in milliseconds
SleepSeconds(pagina, s) == SleepEvent(pagina, s * 1000)

\* -------------------------------------------------------- the code's steps
\* params.setdefault("tamanhoPagina", 500)
WithDefaults(p) ==
    [p EXCEPT !.tamanhoPagina = IF @ = 0 THEN DefaultTamanhoPagina ELSE @,
              !.pagina = IF @ = 0 THEN 1 ELSE @]

\* Seeded fault: the page size read under the wrong key, params["pagina"].
PageSizeWrongKey(v, e, p) == WithDefaults(p).pagina

\* page_size: params["tamanhoPagina"] in extract_teste.py; in extract.py that
\* only for the contracts endpoint and a fixed 100 for every other endpoint.
PageSize(v, e, p) ==
    IF v = "teste" \/ e = endpoint_contratos
    THEN WithDefaults(p).tamanhoPagina
    ELSE ApproxPageSize

\* Seeded fault: the + 1 of max_pages forgotten.
MaxPagesNoExtra(budget, size) == budget \div size

\* max_pages = (max_records // page_size) + 1
MaxPages(budget, size) == (budget \div size) + 1

\* if not results
IsEmptyPage(n) == n = 0

\* if len(results) < page_size   (extract.py compares with tamanhoPagina for
\* contracts and with page_size otherwise: the same number in each case)
IsShortPage(n) == n < page_size

\* Seeded fault: the budget compared with > instead of >=.
BudgetReachedStrict(total) == total > max_records

\* Seeded fault: the budget test after a page never fires.
BudgetReachedNever(total) == FALSE

\* if total_records >= max_records
BudgetReached(total) == total >= max_records

\* Seeded fault: one attempt too many before giving up.
AttemptsRemainOffByOne(r) == r < max_retries

\* if retry < max_retries - 1
AttemptsRemain(r) == r < max_retries - 1

\* Seeded fault: a wait that does not grow with the attempt.
WaitTimeConstant(r) == BackoffUnit

\* wait_time = (retry + 1) * 5
WaitTime(r) == (r + 1) * BackoffUnit

\* except requests.RequestException: timeouts, connection errors and the
\* HTTPError of raise_for_status are RequestExceptions; the AttributeError of
\* data.get on a body that is not a JSON object is not.
TransportFailures == {"timeout", "connection", "status"}
FailureKinds == TransportFailures \cup {"bad_body"}
\* Seeded fault: only timeouts and connection errors caught, not the HTTPError.
IsRequestExceptionNoStatus(kind) == kind \in {"timeout", "connection"}

IsRequestException(kind) == kind \in TransportFailures

\* ------------------------------------------------------------- the server
\* The records of page p when the server answers with n records.
PageRecords(p, n) == [i \in 1..n |-> <<p, i>>]

\* A static dataset of server.n records served in pages of tamanhoPagina.
StaticCount(p) ==
    Min(params.tamanhoPagina, Max(0, server.n - (p - 1) * params.tamanhoPagina))

\* The sizes an arbitrary server answers with: every small size, and around
\* the two page sizes of the code.
ResponseSizes ==
    {n \in 0..params.tamanhoPagina :
        \/ n <= MaxN
        \/ n \in {ApproxPageSize - 1, ApproxPageSize,
                  params.tamanhoPagina - 1, params.tamanhoPagina}}

\* A server that answers with at most server.n records ("upto", and "sound",
\* which never fails), or with none, server.n or a full page ("full").
AnswerSizes(p) ==
    IF server.mode = "static" THEN {StaticCount(p)}
    ELSE IF server.mode \in {"upto", "sound"} THEN 0..server.n
    ELSE IF server.mode = "full" THEN {0, server.n, params.tamanhoPagina}
    ELSE ResponseSizes

\* The ways a request fails; under the callers one transport failure and the
\* malformed body stand for the two kinds of exception.
ServerFailures ==
    IF server.mode = "sound" THEN {}
    ELSE IF server.mode \in {"upto", "full"} THEN {"timeout", "bad_body"}
    ELSE FailureKinds

\* ------------------------------------------------------------ the filters
endpoint_orgao == "modulo-uasg/2_consultarOrgao"
endpoint_fornecedores == "modulo-fornecedor/1_consultarFornecedor"

\* The filters the callers always pass to each endpoint, with the values the
\* one-shot callers of extract.py give them.
MandatoryFilters(e) ==
    IF e = endpoint_contratos
    THEN [dataVigenciaInicialMin |-> <<2024, 1, 1>>,
          dataVigenciaInicialMax |-> <<2024, 12, 31>>]
    ELSE IF e = endpoint_uasg THEN [statusUasg |-> "true"]
    ELSE IF e = endpoint_orgao THEN [statusOrgao |-> "true"]
    ELSE <<>>

\* extract_data called from outside, with no caller of the repository.
NoCaller ==
    /\ cpc = "none"
    /\ args = <<>>
    /\ loc = <<>>
    /\ saida = <<>>
    /\ hist = <<>>

\* ------------------------------------------------------------------- Init
Init ==
    /\ variant \in Variants
    /\ endpoint \in Endpoints
    /\ max_records \in Budgets
    /\ max_retries \in 1..MaxRetriesBound
    /\ params \in [tamanhoPagina : 0..MaxTamanho, pagina : CallerPagina]
    /\ server \in [mode : {"static"}, n : 0..MaxN] \cup [mode : {"any"}, n : {0}]
    /\ max_records \in LargeBudgets => PageSize(variant, endpoint, params) >= ApproxPageSize
    /\ page_size = 0
    /\ max_pages = 0
    /\ all_data = <<>>
    /\ total_records = 0
    /\ current_page = 0
    /\ retry = 0
    /\ pc = "start"
    /\ log = <<>>
    /\ failures = {}
    /\ returned = <<>>
    /\ raised = FALSE
    /\ filtros = MandatoryFilters(endpoint)
    /\ NoCaller

\* ---------------------------------------------------------------- actions
\* The prologue of extract_data up to the first iteration of both loops.
Start ==
    /\ pc = "start"
    /\ params' = [WithDefaults(params) EXCEPT !.pagina = 1]
    /\ page_size' = PageSize(variant, endpoint, params)
    /\ max_pages' = MaxPages(max_records, PageSize(variant, endpoint, params))
    /\ all_data' = <<>>
    /\ total_records' = 0
    /\ current_page' = 1
    /\ retry' = 0
    /\ pc' = "attempt"
    /\ UNCHANGED <<variant, endpoint, max_records, max_retries, server, log,
                   failures, returned, raised, filtros, callervars>>

\* requests.get(url + endpoint, params=params, timeout=20)
Get ==
    /\ pc = "attempt"
    /\ log' = Append(log, GetEvent(params, filtros))
    /\ pc' = "wait"
    /\ UNCHANGED <<variant, endpoint, max_records, max_retries, params, server,
                   page_size, max_pages, all_data, total_records, current_page,
                   retry, failures, returned, raised, filtros, callervars>>

\* return all_data
Return(data, events) ==
    /\ returned' = data
    /\ all_data' = data
    /\ log' = log \o events
    /\ pc' = "done"
    /\ UNCHANGED <<params, current_page, retry, raised>>

\* Seeded fault: the page loop advancing by two.
NextPageSkip(data, events) ==
    IF current_page < max_pages
    THEN /\ current_page' = current_page + 2
         /\ params' = [params EXCEPT !.pagina = current_page + 2]
         /\ retry' = 0
         /\ all_data' = data
         /\ log' = log \o events
         /\ pc' = "attempt"
         /\ UNCHANGED <<returned, raised>>
    ELSE Return(data, events)

\* Seeded fault: the retry counter carried over from one page to the next.
NextPageKeepRetry(data, events) ==
    IF current_page < max_pages
    THEN /\ current_page' = current_page + 1
         /\ params' = [params EXCEPT !.pagina = current_page + 1]
         /\ retry' = retry
         /\ all_data' = data
         /\ log' = log \o events
         /\ pc' = "attempt"
         /\ UNCHANGED <<returned, raised>>
    ELSE Return(data, events)

\* Seeded fault: the page size rewritten together with the page index.
NextPageResized(data, events) ==
    IF current_page < max_pages
    THEN /\ current_page' = current_page + 1
         /\ params' = [params EXCEPT !.pagina = current_page + 1,
                                     !.tamanhoPagina = @ + 1]
         /\ retry' = 0
         /\ all_data' = data
         /\ log' = log \o events
         /\ pc' = "attempt"
         /\ UNCHANGED <<returned, raised>>
    ELSE Return(data, events)

\* The next iteration of the for over pages, or its end.
NextPage(data, events) ==
    IF current_page < max_pages
    THEN /\ current_page' = current_page + 1
         /\ params' = [params EXCEPT !.pagina = current_page + 1]
         /\ retry' = 0
         /\ all_data' = data
         /\ log' = log \o events
         /\ pc' = "attempt"
         /\ UNCHANGED <<returned, raised>>
    ELSE Return(data, events)

\* Seeded fault: an empty page leaves the retry loop (break) instead of returning.
OnEmptyPageBreak(ok) ==
    /\ total_records' = total_records
    /\ NextPage(all_data, <<ok>>)

\* if not results: return all_data
OnEmptyPage(ok) ==
    /\ total_records' = total_records
    /\ Return(all_data, <<ok>>)

\* Seeded fault: a short page does not end the sweep.
OnShortPageContinue(data, ok) == NextPage(data, <<ok>>)

\* all_data.extend(results); if len(results) < page_size: return all_data
OnShortPage(data, ok) == Return(data, <<ok>>)

\* The try block after a response that is a JSON object with n results.
OnResults(n) ==
    LET ok == OkEvent(current_page, n)
        data == all_data \o PageRecords(current_page, n)
        total == total_records + n
        nap == SleepEvent(current_page, CourtesyDelayMs)
    IN  IF IsEmptyPage(n)
        THEN OnEmptyPage(ok)
        ELSE /\ total_records' = total
             /\ IF IsShortPage(n)
                THEN OnShortPage(data, ok)
                ELSE IF BudgetReached(total)
                     THEN Return(data, <<ok, nap>>)
                     ELSE NextPage(data, <<ok, nap>>)

Respond ==
    /\ pc = "wait"
    /\ \E n \in AnswerSizes(current_page) : OnResults(n)
    /\ UNCHANGED <<variant, endpoint, max_records, max_retries, server,
                   page_size, max_pages, failures, filtros, callervars>>

\* Seeded fault: a failed attempt leaves a record of its page in all_data.
OnRequestExceptionAppends ==
    LET err == ErrEvent(current_page)
        partial == all_data \o PageRecords(current_page, 1)
    IN  IF AttemptsRemain(retry)
        THEN /\ log' = log \o <<err, SleepSeconds(current_page, WaitTime(retry))>>
             /\ retry' = retry + 1
             /\ pc' = "attempt"
             /\ all_data' = partial
             /\ UNCHANGED <<params, current_page, returned, raised>>
        ELSE Return(partial, <<err>>)

\* The except block: back off and retry the page, or give up and return.
OnRequestException ==
    LET err == ErrEvent(current_page)
    IN  IF AttemptsRemain(retry)
        THEN /\ log' = log \o <<err, SleepSeconds(current_page, WaitTime(retry))>>
             /\ retry' = retry + 1
             /\ pc' = "attempt"
             /\ UNCHANGED <<params, all_data, current_page, returned, raised>>
        ELSE Return(all_data, <<err>>)

\* An exception the except clause does not catch leaves extract_data.
OnUncaught ==
    /\ log' = Append(log, UncaughtEvent(current_page))
    /\ raised' = TRUE
    /\ pc' = "done"
    /\ UNCHANGED <<params, all_data, current_page, retry, returned>>

Fail ==
    /\ pc = "wait"
    /\ \E kind \in ServerFailures :
          /\ failures' = failures \cup {kind}
          /\ IF IsRequestException(kind) THEN OnRequestException ELSE OnUncaught
    /\ UNCHANGED <<variant, endpoint, max_records, max_retries, server,
                   page_size, max_pages, total_records, filtros, callervars>>

Next == Start \/ Get \/ Respond \/ Fail

Spec == Init /\ [][Next]_vars

\* The sweep is sequential blocking code: every step that is enabled runs.
LiveSpec == Spec /\ WF_vars(Next)

\* ============================================================ the callers
\* The variables of one sweep, and a call of extract_data by a caller: the
\* callers pass url, endpoint, max_records and params and leave max_retries
\* at its default.
sweepvars == <<variant, endpoint, max_records, max_retries, params, server,
               page_size, max_pages, all_data, total_records, current_page,
               retry, log, failures, returned, raised, filtros>>

CallExtractData(e, budget, p, f) ==
    /\ endpoint' = e
    /\ max_records' = budget
    /\ max_retries' = DefaultMaxRetries
    /\ params' = p
    /\ filtros' = f
    /\ page_size' = 0
    /\ max_pages' = 0
    /\ all_data' = <<>>
    /\ total_records' = 0
    /\ current_page' = 0
    /\ retry' = 0
    /\ log' = <<>>
    /\ failures' = {}
    /\ returned' = <<>>
    /\ raised' = FALSE
    /\ pc' = "start"
    /\ UNCHANGED <<variant, server>>

\* The caller goes on without another call of extract_data.
NoCall ==
    /\ pc' = "idle"
    /\ UNCHANGED sweepvars

\* A sweep that has not been called yet.
SweepIdle ==
    /\ max_records = 0
    /\ max_retries = DefaultMaxRetries
    /\ params = [tamanhoPagina |-> 0, pagina |-> 0]
    /\ filtros = <<>>
    /\ page_size = 0
    /\ max_pages = 0
    /\ all_data = <<>>
    /\ total_records = 0
    /\ current_page = 0
    /\ retry = 0
    /\ log = <<>>
    /\ failures = {}
    /\ returned = <<>>
    /\ raised = FALSE
    /\ pc = "idle"

\* How the sweep that just returned ended: by an exception, by the break after
\* the last failed attempt (the log ends with the failure), or normally.
SweepOutcome ==
    IF raised THEN "raised"
    ELSE IF Len(log) >= 1 /\ log[Len(log)].ev = "err" THEN "exhausted"
    ELSE "ok"

\* The sweep that just returned, as the history keeps it: its endpoint, the
\* filters of its requests, how it ended and the value it returned.
SweepRecord ==
    [endpoint |-> endpoint,
     pedidos |-> {log[i].filtros : i \in {j \in DOMAIN log : log[j].ev = "get"}},
     outcome |-> SweepOutcome,
     value |-> returned]

\* ---------------------------------------- extract_contratos_por_trimestre
\* Seeded fault: the second quarter ends a day early.
trimestresGap ==
    << << <<1, 1>>, <<3, 31>> >>, << <<4, 1>>, <<6, 29>> >>,
       << <<7, 1>>, <<9, 30>> >>, << <<10, 1>>, <<12, 31>> >> >>

\* trimestres = [("01-01", "03-31"), ...]: pairs of <<month, day>>
trimestres ==
    << << <<1, 1>>, <<3, 31>> >>, << <<4, 1>>, <<6, 30>> >>,
       << <<7, 1>>, <<9, 30>> >>, << <<10, 1>>, <<12, 31>> >> >>

\* f"{ano}-{inicio_dia}": an ISO date, as <<year, month, day>>
DataDe(ano, dia) == <<ano>> \o dia

\* params of one quarter, without tamanhoPagina (kept in the variable params)
ParamsTrimestre(ano, t) ==
    [dataVigenciaInicialMin |-> DataDe(ano, t[1]),
     dataVigenciaInicialMax |-> DataDe(ano, t[2])]

\* The records the server holds for window q: the answer to a sweep of that
\* window, each record marked with the window.
WindowRecords(q, data) == [k \in DOMAIN data |-> <<q>> \o data[k]]

\* Seeded fault: the new records put in front of the aggregate.
ExtendFront(lst, new) == new \o lst

\* lst.extend(new)
Extend(lst, new) == lst \o new

\* Seeded fault: a quarter's budget reduced by what the quarter before it
\* returned.
CallTrimestreLeftover(i) ==
    CallExtractData(endpoint_contratos, args.contratos_por_trimestre - Len(returned),
                    [tamanhoPagina |-> DefaultTamanhoPagina, pagina |-> 0],
                    ParamsTrimestre(args.ano, trimestres[i]))

\* extract_data(url, endpoint_contratos, max_records=contratos_por_trimestre,
\*              params=params) for quarter i
CallTrimestre(i) ==
    CallExtractData(endpoint_contratos, args.contratos_por_trimestre,
                    [tamanhoPagina |-> DefaultTamanhoPagina, pagina |-> 0],
                    ParamsTrimestre(args.ano, trimestres[i]))

\* The years and the budgets the function is called with.
Anos == {2023, 2024}

InitTrimestre ==
    /\ variant \in Variants
    /\ endpoint = endpoint_contratos
    /\ server = [mode |-> "upto", n |-> 2]
    /\ SweepIdle
    /\ cpc = "call"
    /\ args \in [fn : {"extract_contratos_por_trimestre"}, ano : Anos,
                  contratos_por_trimestre : 1..MaxRecords]
    /\ loc = <<>>
    /\ saida = <<>>
    /\ hist = <<>>

\* From the entry of the function to the call of the first quarter's sweep.
TrimestreEntry ==
    /\ cpc = "call"
    /\ args.fn = "extract_contratos_por_trimestre"
    /\ loc' = [i |-> 1, todos_contratos |-> <<>>]
    /\ cpc' = "trimestre"
    /\ CallTrimestre(1)
    /\ UNCHANGED <<args, saida, hist>>

\* From the return of a quarter's sweep to the call of the next one, or to the
\* return of the aggregate after the last one; an exception of the sweep
\* leaves the function.
TrimestreReturn ==
    /\ cpc = "trimestre"
    /\ pc = "done"
    /\ hist' = Append(hist, SweepRecord)
    /\ IF raised
       THEN /\ cpc' = "raised"
            /\ NoCall
            /\ UNCHANGED <<args, loc, saida>>
       ELSE LET todos == Extend(loc.todos_contratos, WindowRecords(loc.i, returned))
            IN  IF loc.i < Len(trimestres)
                THEN /\ loc' = [i |-> loc.i + 1, todos_contratos |-> todos]
                     /\ CallTrimestre(loc.i + 1)
                     /\ UNCHANGED <<cpc, args, saida>>
                ELSE /\ loc' = [loc EXCEPT !.todos_contratos = todos]
                     /\ saida' = todos
                     /\ cpc' = "fim"
                     /\ NoCall
                     /\ UNCHANGED args

NextTrimestre == TrimestreEntry \/ TrimestreReturn \/ Start \/ Get \/ Respond \/ Fail

SpecTrimestre == InitTrimestre /\ [][NextTrimestre]_vars

\* ------------------------------------------------------------- cell values
\* A cell of the primary records or an element of a key list: a string (a
\* sequence of characters), the float NaN, or None (a JSON null).
Str(s) == [t |-> "str", s |-> s]
NaN == [t |-> "nan", s |-> <<>>]
Null == [t |-> "none", s |-> <<>>]
Rep(n, c) == [i \in 1..n |-> c]

\* str(x)
StrOf(x) ==
    IF x.t = "str" THEN x.s
    ELSE IF x.t = "none" THEN <<"N", "o", "n", "e">>
    ELSE <<"n", "a", "n">>

\* s.strip()
RECURSIVE LStrip(_)
LStrip(s) == IF s /= <<>> /\ Head(s) = " " THEN LStrip(Tail(s)) ELSE s
RECURSIVE RStrip(_)
RStrip(s) ==
    IF s /= <<>> /\ s[Len(s)] = " " THEN RStrip(SubSeq(s, 1, Len(s) - 1)) ELSE s
Strip(s) == RStrip(LStrip(s))

Range(lista) == {lista[k] : k \in DOMAIN lista}

\* The lists that hold each element of the set S once: list(set(...)) yields
\* one of them, in the order of the set's hashing.
Orders(S) ==
    {o \in [1..Cardinality(S) -> S] : \A i, j \in 1..Cardinality(S) : o[i] = o[j] => i = j}

\* list(set(lista))
KeysOf(lista) == Orders(Range(lista))

\* The key lists a lookup function is called with.
Lists(A) == UNION {[1..n -> A] : n \in 0..MaxKeys}

\* The return values of the three lookup functions; pd.DataFrame() is <<>>.
NoResults == [uasg_df |-> <<>>, orgao_df |-> <<>>, fornecedores_df |-> <<>>]

\* A lookup function returns valor: to extract_dados_relacionados, which goes
\* on with its next section, or to the outside.
ReturnTo(campo, valor) ==
    /\ saida' = [saida EXCEPT ![campo] = valor]
    /\ cpc' = IF args.fn /= "extract_dados_relacionados" THEN "fim"
              ELSE IF campo = "uasg_df" THEN "rel_orgao"
              ELSE IF campo = "orgao_df" THEN "rel_fornecedores"
              ELSE "fim"

\* Seeded fault: the try around the loop, so that a lookup's exception ends it.
ContinuesUnlessFailed(i, n, failed) == i < n /\ ~failed

\* for ... : try: ... except Exception: the loop goes on to the next key while
\* there is one, whether the lookup failed or not.
Continues(i, n, failed) == i < n

\* ------------------------------------------------ extract_orgao_por_codigo
ParamsOrgao(codigo) == [codigoOrgao |-> codigo, statusOrgao |-> "true"]

\* extract_data(url, endpoint_orgao, max_records=1, params=params)
CallOrgao(codigo) ==
    CallExtractData(endpoint_orgao, 1, [tamanhoPagina |-> 0, pagina |-> 0],
                    ParamsOrgao(codigo))

\* From the entry of the function to the lookup of the first code.
OrgaoBegin(codigos_orgao, codigos_unicos) ==
    IF codigos_orgao = <<>>
    THEN /\ ReturnTo("orgao_df", <<>>)
         /\ NoCall
         /\ UNCHANGED loc
    ELSE /\ loc' = [codigos_unicos |-> codigos_unicos, i |-> 1,
                    orgaos_data |-> <<>>, erros |-> 0]
         /\ cpc' = "orgao"
         /\ CallOrgao(codigos_unicos[1])
         /\ UNCHANGED saida

OrgaoEntry ==
    /\ cpc = "call"
    /\ args.fn = "extract_orgao_por_codigo"
    /\ \E codigos_unicos \in KeysOf(args.lista) : OrgaoBegin(args.lista, codigos_unicos)
    /\ UNCHANGED <<args, hist>>

\* From the return of a lookup (or its exception, caught and counted) to the
\* lookup of the next code, or to the return of the function.
OrgaoReturn ==
    /\ cpc = "orgao"
    /\ pc = "done"
    /\ hist' = Append(hist, SweepRecord)
    /\ LET novo == IF raised
                   THEN [loc EXCEPT !.erros = @ + 1]
                   ELSE [loc EXCEPT !.orgaos_data =
                             Extend(@, WindowRecords(filtros.codigoOrgao, returned))]
       IN  IF Continues(loc.i, Len(loc.codigos_unicos), raised)
           THEN /\ loc' = [novo EXCEPT !.i = @ + 1]
                /\ CallOrgao(loc.codigos_unicos[loc.i + 1])
                /\ UNCHANGED <<cpc, saida>>
           ELSE /\ loc' = novo
                /\ ReturnTo("orgao_df", novo.orgaos_data)
                /\ NoCall
    /\ UNCHANGED args

\* --------------------------------------------- extract_fornecedores_por_id
\* Seeded fault: the boundary of the short format one character too low.
ClassifyStrict(ni_str) ==
    IF ni_str = <<>> \/ ni_str = <<"n", "a", "n">> THEN "invalido"
    ELSE IF Len(ni_str) < CpfMaxLen THEN "cpf"
    ELSE "cnpj"

\* if not ni_str or ni_str == 'nan' / elif len(ni_str) <= 11 / else
Classify(ni_str) ==
    IF ni_str = <<>> \/ ni_str = <<"n", "a", "n">> THEN "invalido"
    ELSE IF Len(ni_str) <= CpfMaxLen THEN "cpf"
    ELSE "cnpj"

\* The loop over nis_unicos: the list of one class, in the order of nis_unicos.
ClassList(nis_unicos, classe) ==
    SelectSeq([k \in DOMAIN nis_unicos |-> Strip(StrOf(nis_unicos[k]))],
              LAMBDA ni_str : Classify(ni_str) = classe)

ParamsFornecedor(campo, ni_str) ==
    IF campo = "cpf" THEN [cpf |-> ni_str, ativo |-> "true"]
    ELSE [cnpj |-> ni_str, ativo |-> "true"]

\* extract_data(url, endpoint_fornecedores, max_records=1, params={...})
CallFornecedor(campo, ni_str) ==
    CallExtractData(endpoint_fornecedores, 1, [tamanhoPagina |-> 0, pagina |-> 0],
                    ParamsFornecedor(campo, ni_str))

\* The end of the function: save_to_csv returns the records as a DataFrame.
FornecedoresEnd(l) ==
    /\ loc' = l
    /\ ReturnTo("fornecedores_df", l.fornecedores_data)
    /\ NoCall

\* From the entry of the function, through the classification, to the first
\* lookup.
FornecedoresBegin(ni_fornecedores, nis_unicos) ==
    IF ni_fornecedores = <<>>
    THEN /\ ReturnTo("fornecedores_df", <<>>)
         /\ NoCall
         /\ UNCHANGED loc
    ELSE LET l == [cpfs |-> ClassList(nis_unicos, "cpf"),
                   cnpjs |-> ClassList(nis_unicos, "cnpj"),
                   invalidos |-> ClassList(nis_unicos, "invalido"),
                   i |-> 1, fornecedores_data |-> <<>>,
                   erros_cpf |-> 0, erros_cnpj |-> 0]
         IN  IF l.cpfs /= <<>>
             THEN /\ loc' = l
                  /\ cpc' = "cpf"
                  /\ CallFornecedor("cpf", l.cpfs[1])
                  /\ UNCHANGED saida
             ELSE IF l.cnpjs /= <<>>
             THEN /\ loc' = l
                  /\ cpc' = "cnpj"
                  /\ CallFornecedor("cnpj", l.cnpjs[1])
                  /\ UNCHANGED saida
             ELSE FornecedoresEnd(l)

FornecedoresEntry ==
    /\ cpc = "call"
    /\ args.fn = "extract_fornecedores_por_id"
    /\ \E nis_unicos \in KeysOf(args.lista) : FornecedoresBegin(args.lista, nis_unicos)
    /\ UNCHANGED <<args, hist>>

\* From the return of a CPF lookup to the next lookup or to the end.
CpfReturn ==
    /\ cpc = "cpf"
    /\ pc = "done"
    /\ hist' = Append(hist, SweepRecord)
    /\ LET novo == IF raised
                   THEN [loc EXCEPT !.erros_cpf = @ + 1]
                   ELSE [loc EXCEPT !.fornecedores_data =
                             Extend(@, WindowRecords(filtros.cpf, returned))]
       IN  IF Continues(loc.i, Len(loc.cpfs), raised)
           THEN /\ loc' = [novo EXCEPT !.i = @ + 1]
                /\ CallFornecedor("cpf", loc.cpfs[loc.i + 1])
                /\ UNCHANGED <<cpc, saida>>
           ELSE IF loc.cnpjs /= <<>>
           THEN /\ loc' = [novo EXCEPT !.i = 1]
                /\ cpc' = "cnpj"
                /\ CallFornecedor("cnpj", loc.cnpjs[1])
                /\ UNCHANGED saida
           ELSE FornecedoresEnd(novo)
    /\ UNCHANGED args

\* From the return of a CNPJ lookup to the next lookup or to the end.
CnpjReturn ==
    /\ cpc = "cnpj"
    /\ pc = "done"
    /\ hist' = Append(hist, SweepRecord)
    /\ LET novo == IF raised
                   THEN [loc EXCEPT !.erros_cnpj = @ + 1]
                   ELSE [loc EXCEPT !.fornecedores_data =
                             Extend(@, WindowRecords(filtros.cnpj, returned))]
       IN  IF Continues(loc.i, Len(loc.cnpjs), raised)
           THEN /\ loc' = [novo EXCEPT !.i = @ + 1]
                /\ CallFornecedor("cnpj", loc.cnpjs[loc.i + 1])
                /\ UNCHANGED <<cpc, saida>>
           ELSE FornecedoresEnd(novo)
    /\ UNCHANGED args

\* ------------------------------------------- the lookups called on their own
\* Body codes and supplier identifiers as transform_contratos_basico leaves
\* them, and supplier identifiers as they may come otherwise.
OrgaoCodes == {Str(Rep(5, "2")), Str(Rep(5, "3"))}
NisNormalizados == {Str(Rep(11, "1")), Str(Rep(14, "2")), Str(Rep(12, "3"))}
NisBrutos ==
    NisNormalizados \cup
    {Str(<<" ">> \o Rep(11, "1") \o <<" ">>), Str(Rep(10, "4") \o <<" ", " ">>),
     Str(<<>>), Str(<<" ">>), Str(<<"n", "a", "n">>), NaN}

InitLookups ==
    /\ variant = "teste"
    /\ endpoint = endpoint_orgao
    /\ SweepIdle
    /\ cpc = "call"
    /\ \/ /\ server = [mode |-> "upto", n |-> 1]
          /\ args \in [fn : {"extract_orgao_por_codigo"}, lista : Lists(OrgaoCodes)]
                    \cup [fn : {"extract_fornecedores_por_id"},
                          lista : Lists(NisNormalizados)]
       \/ /\ server = [mode |-> "sound", n |-> 1]
          /\ args \in [fn : {"extract_fornecedores_por_id"}, lista : Lists(NisBrutos)]
    /\ loc = <<>>
    /\ saida = NoResults
    /\ hist = <<>>

NextLookups ==
    \/ OrgaoEntry \/ OrgaoReturn
    \/ FornecedoresEntry \/ CpfReturn \/ CnpjReturn
    \/ Start \/ Get \/ Respond \/ Fail

SpecLookups == InitLookups /\ [][NextLookups]_vars

\* ------------------------------------------------- extract_uasg_por_codigo
\* ','.join(map(str, codigos_unicos))
RECURSIVE Join(_)
Join(l) ==
    IF l = <<>> THEN <<>>
    ELSE IF Len(l) = 1 THEN StrOf(l[1])
    ELSE StrOf(l[1]) \o <<",">> \o Join(Tail(l))

\* params without pagina and tamanhoPagina; codigoUasg only if codigos_param
\* is neither None nor ''
ParamsUasg(codigos_param) ==
    IF codigos_param = <<>> THEN [statusUasg |-> "true"]
    ELSE [statusUasg |-> "true", codigoUasg |-> codigos_param]

\* extract_data(url, endpoint_uasg, max_records=tamanho_pagina, params=params)
CallUasg(pagina, codigos_param) ==
    CallExtractData(endpoint_uasg, tamanho_pagina,
                    [tamanhoPagina |-> tamanho_pagina, pagina |-> pagina],
                    ParamsUasg(codigos_param))

\* From the entry of the function to the first sweep of its while True loop.
UasgBegin(codigos_uasg, codigos_unicos) ==
    /\ loc' = [uasg_data |-> <<>>, erros |-> 0, pagina |-> 1,
               codigos_param |-> Join(codigos_unicos)]
    /\ cpc' = "uasg"
    /\ CallUasg(1, Join(codigos_unicos))
    /\ UNCHANGED saida

UasgEntry ==
    /\ cpc = "call"
    /\ args.fn = "extract_uasg_por_codigo"
    /\ \E codigos_unicos \in KeysOf(args.lista) : UasgBegin(args.lista, codigos_unicos)
    /\ UNCHANGED <<args, hist>>

\* pagina += 1 and erros += 1. The loop tests neither counter, so beyond
\* MaxUasgSweeps their value is held, which keeps the state space finite
\* without ending a run the code goes on with.
Counted(c) == IF c < MaxUasgSweeps THEN c + 1 ELSE c

\* From the return of a sweep to the next iteration of while True or, after
\* a break, to the return of the function. An exception is counted and the
\* loop runs again with the same pagina; a full page makes it run again with
\* pagina + 1. The history and the aggregate, which the loop does not test
\* either, stop growing after MaxUasgSweeps sweeps.
UasgReturn ==
    /\ cpc = "uasg"
    /\ pc = "done"
    /\ hist' = IF Len(hist) < MaxUasgSweeps THEN Append(hist, SweepRecord) ELSE hist
    /\ IF raised
       THEN /\ loc' = [loc EXCEPT !.erros = Counted(@)]
            /\ CallUasg(loc.pagina, loc.codigos_param)
            /\ UNCHANGED <<cpc, saida>>
       ELSE LET novo == [loc EXCEPT !.uasg_data =
                            IF Len(hist) < MaxUasgSweeps
                            THEN Extend(@, WindowRecords(loc.codigos_param, returned))
                            ELSE @]
            IN  IF returned = <<>> \/ Len(returned) < tamanho_pagina
                THEN /\ loc' = novo
                     /\ ReturnTo("uasg_df", novo.uasg_data)
                     /\ NoCall
                ELSE /\ loc' = [novo EXCEPT !.pagina = Counted(@)]
                     /\ CallUasg(Counted(loc.pagina), loc.codigos_param)
                     /\ UNCHANGED <<cpc, saida>>
    /\ UNCHANGED args

UasgCodes == {Str(Rep(6, "1")), Str(Rep(6, "7"))}

InitUasg ==
    /\ variant = "teste"
    /\ endpoint = endpoint_uasg
    /\ server \in [mode : {"full"}, n : 1..2]
    /\ SweepIdle
    /\ cpc = "call"
    /\ args \in [fn : {"extract_uasg_por_codigo"}, lista : Lists(UasgCodes)]
    /\ loc = <<>>
    /\ saida = NoResults
    /\ hist = <<>>

NextUasg == UasgEntry \/ UasgReturn \/ Start \/ Get \/ Respond \/ Fail

SpecUasg == InitUasg /\ [][NextUasg]_vars

\* The function is sequential blocking code: every step that is enabled runs.
LiveSpecUasg == SpecUasg /\ WF_vars(NextUasg)

\* ---------------------------------------------- extract_dados_relacionados
\* The primary records: None, or a DataFrame of some rows in which each of
\* the three key columns is present or not (colunas holds NaN for a column
\* that is not there).
Columns == {"codigoUnidadeRealizadoraCompra", "codigoOrgao", "niFornecedor"}
CellsOf(col) ==
    IF col = "codigoUnidadeRealizadoraCompra" THEN {NaN, Str(Rep(6, "1"))}
    ELSE IF col = "codigoOrgao" THEN {NaN, Str(Rep(5, "2"))}
    ELSE {NaN, Str(Rep(11, "1")), Str(<<>>)}
ColumnValues(col, n, presentes) ==
    IF col \in presentes THEN [1..n -> CellsOf(col)] ELSE {[k \in 1..n |-> NaN]}
Frames(n) ==
    UNION {{[nulo |-> FALSE, linhas |-> n, presentes |-> p,
             colunas |-> [codigoUnidadeRealizadoraCompra |-> u,
                          codigoOrgao |-> o, niFornecedor |-> f]] :
               u \in ColumnValues("codigoUnidadeRealizadoraCompra", n, p),
               o \in ColumnValues("codigoOrgao", n, p),
               f \in ColumnValues("niFornecedor", n, p)} : p \in SUBSET Columns}
None == [nulo |-> TRUE, linhas |-> 0, presentes |-> {},
         colunas |-> [codigoUnidadeRealizadoraCompra |-> <<>>,
                      codigoOrgao |-> <<>>, niFornecedor |-> <<>>]]

\* Seeded fault: the missing values kept among the keys.
DropNaKeepsAll(col) == col

\* Series.dropna()
DropNa(col) == SelectSeq(col, LAMBDA x : x.t \notin {"nan", "none"})

\* Series.unique().tolist(): the values in the order of their first occurrence
RECURSIVE Unique(_)
Unique(col) ==
    IF col = <<>> THEN <<>>
    ELSE LET r == Unique(SubSeq(col, 1, Len(col) - 1))
             x == col[Len(col)]
         IN  IF x \in Range(r) THEN r ELSE Append(r, x)

\* contratos_df[col].dropna().unique().tolist()
KeysIn(df, col) == Unique(DropNa(df.colunas[col]))

\* A section of the function is passed without a lookup.
Skip(next) ==
    /\ cpc' = next
    /\ NoCall
    /\ UNCHANGED <<loc, saida>>

\* The entry of the function: no records, three empty results.
RelacionadosEntry ==
    /\ cpc = "call"
    /\ args.fn = "extract_dados_relacionados"
    /\ IF args.contratos_df.nulo \/ args.contratos_df.linhas = 0
       THEN /\ saida' = NoResults
            /\ cpc' = "fim"
       ELSE /\ cpc' = "rel_uasg"
            /\ UNCHANGED saida
    /\ NoCall
    /\ UNCHANGED <<args, loc, hist>>

\* The three sections: the keys of the column, and the lookup function called
\* if the column is there and has keys.
RelUasg ==
    /\ cpc = "rel_uasg"
    /\ LET codigos_uasg == KeysIn(args.contratos_df, "codigoUnidadeRealizadoraCompra")
       IN  IF "codigoUnidadeRealizadoraCompra" \in args.contratos_df.presentes
              /\ codigos_uasg /= <<>>
           THEN \E codigos_unicos \in KeysOf(codigos_uasg) :
                    UasgBegin(codigos_uasg, codigos_unicos)
           ELSE Skip("rel_orgao")
    /\ UNCHANGED <<args, hist>>

RelOrgao ==
    /\ cpc = "rel_orgao"
    /\ LET codigos_orgao == KeysIn(args.contratos_df, "codigoOrgao")
       IN  IF "codigoOrgao" \in args.contratos_df.presentes /\ codigos_orgao /= <<>>
           THEN \E codigos_unicos \in KeysOf(codigos_orgao) :
                    OrgaoBegin(codigos_orgao, codigos_unicos)
           ELSE Skip("rel_fornecedores")
    /\ UNCHANGED <<args, hist>>

RelFornecedores ==
    /\ cpc = "rel_fornecedores"
    /\ LET nis_fornecedores == KeysIn(args.contratos_df, "niFornecedor")
       IN  IF "niFornecedor" \in args.contratos_df.presentes /\ nis_fornecedores /= <<>>
           THEN \E nis_unicos \in KeysOf(nis_fornecedores) :
                    FornecedoresBegin(nis_fornecedores, nis_unicos)
           ELSE Skip("fim")
    /\ UNCHANGED <<args, hist>>

InitRelacionados ==
    /\ variant = "teste"
    /\ endpoint = endpoint_uasg
    /\ server = [mode |-> "sound", n |-> 1]
    /\ SweepIdle
    /\ cpc = "call"
    /\ args \in [fn : {"extract_dados_relacionados"},
                  contratos_df : {None} \cup UNION {Frames(n) : n \in 0..MaxRows}]
    /\ loc = <<>>
    /\ saida = NoResults
    /\ hist = <<>>

NextRelacionados ==
    \/ RelacionadosEntry \/ RelUasg \/ RelOrgao \/ RelFornecedores
    \/ UasgReturn \/ OrgaoReturn \/ CpfReturn
    \/ Start \/ Get \/ Respond

SpecRelacionados == InitRelacionados /\ [][NextRelacionados]_vars

\* ----------------------------------------------- transform_contratos_basico
\* Series.astype(str) of a cell: a string stays as it is; a missing value
\* becomes the text of str(x) ('nan', 'None') on an object column, and stays
\* missing on a string-dtype column. Which of the two the installed pandas
\* does is not fixed by the repository (na_kept).
AstypeStr(x, na_kept) ==
    IF x.t = "str" THEN x
    ELSE IF na_kept THEN NaN
    ELSE Str(StrOf(x))

\* Series.str.strip() of a cell
StrStrip(x) == IF x.t = "str" THEN Str(Strip(x.s)) ELSE x

\* Series.str.replace(r'[^\d]', '', regex=True) of a cell
DigitChars == {"0", "1", "2", "3", "4", "5", "6", "7", "8", "9"}
OnlyDigits(x) ==
    IF x.t = "str" THEN Str(SelectSeq(x.s, LAMBDA c : c \in DigitChars)) ELSE x

\* limpar_coluna(col), cell by cell:
\* where(pd.notna(col) & (col != "") & (col != "nan"))
limpar_coluna(x, na_kept) ==
    LET c == StrStrip(AstypeStr(x, na_kept))
    IN  IF c.t = "str" /\ c.s /= <<>> /\ c.s /= <<"n", "a", "n">> THEN c ELSE NaN

\* The cleaning of niFornecedor, cell by cell: where(pd.notna(col) & (col != ""))
limpar_ni(x, na_kept) ==
    LET c == OnlyDigits(StrStrip(AstypeStr(x, na_kept)))
    IN  IF c.t = "str" /\ c.s /= <<>> THEN c ELSE NaN

transform_contratos_basico(df, na_kept) ==
    [df EXCEPT !.colunas =
        [col \in Columns |->
            IF col \notin df.presentes THEN df.colunas[col]
            ELSE [k \in 1..df.linhas |->
                    IF col = "niFornecedor"
                    THEN limpar_ni(df.colunas[col][k], na_kept)
                    ELSE limpar_coluna(df.colunas[col][k], na_kept)]]]

\* The raw primary records: in each key column a code, a code with blanks
\* around it, an empty or blank string, the text 'nan', a missing key (NaN) or
\* a JSON null (None).
Code(col) ==
    IF col = "codigoUnidadeRealizadoraCompra" THEN Rep(6, "1")
    ELSE IF col = "codigoOrgao" THEN Rep(5, "2")
    ELSE Rep(11, "1")
RawCells(col) ==
    {Str(Code(col)), Str(<<" ">> \o Code(col) \o <<" ">>), Str(<<>>), Str(<<" ">>),
     Str(<<"n", "a", "n">>), NaN, Null}

\* The raw frames of n rows: one column takes every combination of raw
\* cells, the two others hold their code.
RawFrames(n) ==
    UNION {{[nulo |-> FALSE, linhas |-> n, presentes |-> Columns,
             colunas |-> [col \in Columns |->
                            IF col = sob THEN cells ELSE [k \in 1..n |-> Str(Code(col))]]] :
               cells \in [1..n -> RawCells(sob)]} : sob \in Columns}

\* __main__ from the frame of contracts to the call of
\* extract_dados_relacionados with the transformed frame (a frame with rows
\* is not empty, and the transformation keeps the rows).
MainTransform ==
    /\ cpc = "main"
    /\ \E na_kept \in BOOLEAN :
           args' = [fn |-> "extract_dados_relacionados", df |-> args.df,
                    contratos_df |-> transform_contratos_basico(args.df, na_kept)]
    /\ cpc' = "call"
    /\ NoCall
    /\ UNCHANGED <<loc, saida, hist>>

InitPipeline ==
    /\ variant = "teste"
    /\ endpoint = endpoint_uasg
    /\ server = [mode |-> "sound", n |-> 1]
    /\ SweepIdle
    /\ cpc = "main"
    /\ args \in [fn : {"main"}, df : UNION {RawFrames(n) : n \in 1..MaxRows}]
    /\ loc = <<>>
    /\ saida = NoResults
    /\ hist = <<>>

NextPipeline ==
    \/ MainTransform
    \/ RelacionadosEntry \/ RelUasg \/ RelOrgao \/ RelFornecedores
    \/ UasgReturn \/ OrgaoReturn \/ CpfReturn
    \/ Start \/ Get \/ Respond

SpecPipeline == InitPipeline /\ [][NextPipeline]_vars

\* ------------------- extract_contratos_simples, extract_uasg, extract_orgao
\* The one-shot extractions of extract.py: the endpoint, the params literal
\* (its filters and its tamanhoPagina) and the budget of each.
Wrappers == {"extract_contratos_simples", "extract_uasg", "extract_orgao"}
WrapperEndpoint(fn) ==
    IF fn = "extract_contratos_simples" THEN endpoint_contratos
    ELSE IF fn = "extract_uasg" THEN endpoint_uasg
    ELSE endpoint_orgao
WrapperFilters(fn) == MandatoryFilters(WrapperEndpoint(fn))
WrapperTamanho(fn) ==
    IF fn = "extract_contratos_simples" THEN DefaultTamanhoPagina ELSE 0

\* if max_records is None: max_records = 1000000   (None is 0)
WrapperBudget(m) == IF m = 0 THEN AllRecords ELSE m

\* if 'dataVigenciaInicialMin' not in params or ... / 'statusUasg' not in
\* params / 'statusOrgao' not in params
Lacks(f, e) ==
    IF e = endpoint_contratos
    THEN "dataVigenciaInicialMin" \notin DOMAIN f \/ "dataVigenciaInicialMax" \notin DOMAIN f
    ELSE IF e = endpoint_uasg THEN "statusUasg" \notin DOMAIN f
    ELSE IF e = endpoint_orgao THEN "statusOrgao" \notin DOMAIN f
    ELSE FALSE

\* From the entry of a one-shot extraction to its call of extract_data: the
\* check of the params literal, which raises ValueError, then the call.
WrapperEntry ==
    /\ cpc = "call"
    /\ args.fn \in Wrappers
    /\ IF Lacks(WrapperFilters(args.fn), WrapperEndpoint(args.fn))
       THEN /\ cpc' = "raised"
            /\ NoCall
       ELSE /\ cpc' = "wrapper"
            /\ CallExtractData(WrapperEndpoint(args.fn), WrapperBudget(args.max_records),
                               [tamanhoPagina |-> WrapperTamanho(args.fn), pagina |-> 0],
                               WrapperFilters(args.fn))
    /\ UNCHANGED <<args, loc, saida, hist>>

\* From the return of extract_data to the return of the records.
WrapperReturn ==
    /\ cpc = "wrapper"
    /\ pc = "done"
    /\ hist' = Append(hist, SweepRecord)
    /\ IF raised
       THEN cpc' = "raised" /\ UNCHANGED saida
       ELSE cpc' = "fim" /\ saida' = returned
    /\ NoCall
    /\ UNCHANGED <<args, loc>>

\* extract_data called with params of the caller's making: every part of the
\* endpoint's filters may be there or not.
FilterChoices(e) ==
    {[k \in D |-> MandatoryFilters(e)[k]] : D \in SUBSET DOMAIN MandatoryFilters(e)}

InitFiltros ==
    /\ server \in [mode : {"static"}, n : 0..MaxN]
    /\ \/ /\ variant \in Variants
          /\ endpoint \in {endpoint_contratos, endpoint_uasg, endpoint_orgao}
          /\ max_records \in 1..MaxRecords
          /\ max_retries = DefaultMaxRetries
          /\ params \in [tamanhoPagina : {0, MaxTamanho}, pagina : {0}]
          /\ filtros \in FilterChoices(endpoint)
          /\ pc = "start"
          /\ NoCaller
       \/ /\ variant = "extract"
          /\ endpoint = endpoint_contratos
          /\ max_records = 0
          /\ max_retries = DefaultMaxRetries
          /\ params = [tamanhoPagina |-> 0, pagina |-> 0]
          /\ filtros = <<>>
          /\ pc = "idle"
          /\ cpc = "call"
          /\ args \in [fn : Wrappers, max_records : 0..MaxRecords]
          /\ args.fn = "extract_contratos_simples" => args.max_records > 0
          /\ loc = <<>>
          /\ saida = <<>>
          /\ hist = <<>>
    /\ page_size = 0
    /\ max_pages = 0
    /\ all_data = <<>>
    /\ total_records = 0
    /\ current_page = 0
    /\ retry = 0
    /\ log = <<>>
    /\ failures = {}
    /\ returned = <<>>
    /\ raised = FALSE

NextFiltros == WrapperEntry \/ WrapperReturn \/ Start \/ Get \/ Respond \/ Fail

SpecFiltros == InitFiltros /\ [][NextFiltros]_vars

\* ============================================================ properties
\* What the log says, read without the operators of the code above.
GetIdx == {i \in DOMAIN log : log[i].ev = "get"}
PagesRequested == {log[i].pagina : i \in GetIdx}
LastEvent == log[Len(log)]
CountEv(ev, p, upto) ==
    Cardinality({i \in 1..upto : log[i].ev = ev /\ log[i].pagina = p})

\* The records of the successful responses of a log, in response order.
RECURSIVE Served(_)
Served(events) ==
    IF events = <<>> THEN <<>>
    ELSE LET last == events[Len(events)]
             front == SubSeq(events, 1, Len(events) - 1)
         IN  Served(front) \o
             (IF last.ev = "ok" THEN [i \in 1..last.n |-> <<last.pagina, i>>] ELSE <<>>)

\* ---------------------------------------------------------------- C1
\* C1: once the running total of collected records is greater than or equal
\* to max_records, no step of the sweep issues a further HTTP request.
C1_NoRequestAfterBudget ==
    [][(pc # "start" /\ total_records >= max_records)
          => \A i \in DOMAIN log' : i > Len(log) => log'[i].ev # "get"]_vars

\* A sweep stopped by its budget with pages of its range still unrequested.
C1_Witness ==
    /\ pc = "done"
    /\ total_records >= max_records
    /\ current_page < max_pages
    /\ LastEvent.ev = "sleep"
    /\ LastEvent.ms = 500

\* ---------------------------------------------------------------- C2
\* C2: the record list returned by extract_data never contains more than
\* max_records records.
C2_ReturnedWithinBudget == pc = "done" => Len(returned) <= max_records

\* ---------------------------------------------------------------- C3
\* C3: a failure-free sweep of extract_teste.py's extract_data against a static
\* dataset of N records served in pages of P requests exactly
\* ceil(min(N,B)/P) distinct pages, plus at most one extra page that comes
\* back empty, and that extra page only if N is a multiple of P and B >= N.
C3_PageCount ==
    (variant = "teste" /\ server.mode = "static" /\ pc = "done" /\ failures = {})
    => LET P == params.tamanhoPagina
           N == server.n
           B == max_records
           base == ((IF N <= B THEN N ELSE B) + P - 1) \div P
           asked == Cardinality(PagesRequested)
       IN  /\ PagesRequested = 1..asked
           /\ \/ asked = base
              \/ /\ asked = base + 1
                 /\ N % P = 0
                 /\ B >= N
                 /\ LastEvent.ev = "ok" /\ LastEvent.n = 0

\* A failure-free sweep of a non-empty dataset that ends with the empty probe.
C3_Witness ==
    /\ variant = "teste" /\ server.mode = "static" /\ pc = "done" /\ failures = {}
    /\ server.n > 0
    /\ Cardinality(PagesRequested) = (server.n \div params.tamanhoPagina) + 1
    /\ LastEvent.ev = "ok" /\ LastEvent.n = 0

\* ---------------------------------------------------------------- C4
\* C4: in extract_teste.py, a successfully fetched page with at least one but
\* fewer records than the requested tamanhoPagina ends the sweep at once: it
\* is the last event of the sweep, its records are the tail of the returned
\* list and no request follows, whatever the budget.
C4_ShortPageRule ==
    variant = "teste" =>
    \A i \in DOMAIN log :
        (log[i].ev = "ok" /\ log[i].n > 0 /\ log[i].n < params.tamanhoPagina)
        => /\ i = Len(log)
           /\ pc = "done" /\ ~raised
           /\ Len(returned) >= log[i].n
           /\ \A k \in 1..log[i].n :
                 returned[Len(returned) - log[i].n + k] = <<log[i].pagina, k>>

\* A short page ended the sweep with the budget not reached and a further
\* page left in the range of the page loop.
C4_Witness ==
    /\ variant = "teste" /\ pc = "done"
    /\ LastEvent.ev = "ok" /\ LastEvent.n > 0 /\ LastEvent.n < params.tamanhoPagina
    /\ LastEvent.pagina < max_pages
    /\ Len(returned) = LastEvent.n
    /\ Len(returned) < max_records

\* ---------------------------------------------------------------- C5
\* C5: a successfully fetched page with zero records, on any page index, is
\* the last event of the sweep, and extract_data returns exactly the records
\* of the earlier pages.
C5_EmptyPageRule ==
    \A i \in DOMAIN log :
        (log[i].ev = "ok" /\ log[i].n = 0)
        => /\ i = Len(log)
           /\ pc = "done" /\ ~raised
           /\ returned = Served(SubSeq(log, 1, i - 1))

\* An empty page after at least one page of records.
C5_Witness ==
    /\ pc = "done"
    /\ LastEvent.ev = "ok" /\ LastEvent.n = 0
    /\ LastEvent.pagina > 1
    /\ returned # <<>>

\* ---------------------------------------------------------------- C6
\* C6: every sweep terminates, and it requests at most
\* ceil(max_records / page_size) + 1 distinct page numbers, page_size being
\* tamanhoPagina (500 when absent) in extract_teste.py and for contracts, and
\* 100 for the other endpoints of extract.py.
C6_PageSize ==
    IF variant = "teste" \/ endpoint = "modulo-contratos/1_consultarContratos"
    THEN (IF params.tamanhoPagina = 0 THEN 500 ELSE params.tamanhoPagina)
    ELSE 100

C6_Terminates ==
    /\ <>(pc = "done")
    /\ [](Cardinality(PagesRequested)
            <= ((max_records + C6_PageSize - 1) \div C6_PageSize) + 1)

\* A sweep of full pages and failures, against a server that would go on
\* answering, ended after ceil(max_records / page_size) >= 3 pages.
C6_Witness ==
    /\ pc = "done"
    /\ server.mode = "any"
    /\ failures # {}
    /\ Cardinality(PagesRequested) = (max_records + C6_PageSize - 1) \div C6_PageSize
    /\ Cardinality(PagesRequested) >= 3

\* ---------------------------------------------------------------- C7
\* C7: a page whose fetch fails k < max_retries times and then succeeds has
\* its records incorporated; a page whose fetch always fails is attempted
\* exactly max_retries times and extract_data then returns what it had
\* accumulated, without raising.
C7_RetryPolicy ==
    LET served == Served(log) IN
    /\ all_data = served
    /\ \A p \in PagesRequested :
          LET f == CountEv("err", p, Len(log))
              g == CountEv("get", p, Len(log))
          IN  /\ f <= max_retries
              /\ g <= max_retries
              /\ f = max_retries
                 => /\ g = max_retries
                    /\ CountEv("ok", p, Len(log)) = 0
                    /\ LastEvent.ev = "err" /\ LastEvent.pagina = p
                    /\ pc = "done" /\ ~raised
                    /\ returned = served

\* Page 1 succeeded after a failure, page 2 failed on every attempt.
C7_Witness ==
    /\ pc = "done" /\ max_retries >= 2
    /\ CountEv("err", 1, Len(log)) >= 1 /\ CountEv("ok", 1, Len(log)) = 1
    /\ CountEv("err", 2, Len(log)) = max_retries
    /\ returned # <<>>

\* ---------------------------------------------------------------- C8
\* C8: after the i-th failed attempt for a page, i = 1 .. max_retries - 1,
\* the sweep sleeps i * 5 seconds and the next request is for the same page.
C8_LinearBackoff ==
    \A j \in DOMAIN log :
        LET p == log[j].pagina
            i == CountEv("err", p, j)
        IN  (log[j].ev = "err" /\ i <= max_retries - 1)
            => /\ j + 1 <= Len(log)
               /\ log[j + 1].ev = "sleep" /\ log[j + 1].ms = i * 5 * 1000
               /\ IF j + 2 <= Len(log)
                  THEN log[j + 2].ev = "get" /\ log[j + 2].pagina = p
                  ELSE pc = "attempt" /\ params.pagina = p

\* Two failures of one page: a 5 s wait, then a 10 s wait, then a request.
C8_Witness ==
    \E j \in DOMAIN log :
        /\ j + 5 <= Len(log)
        /\ log[j].ev = "err" /\ log[j + 1].ms = 5000
        /\ log[j + 3].ev = "err" /\ log[j + 4].ms = 10000
        /\ log[j + 5].ev = "get" /\ log[j + 5].pagina = log[j].pagina

\* ---------------------------------------------------------------- C9
\* C9: when every failure of the sweep is a timeout, a connection error or a
\* non-2xx status, extract_data does not raise: it returns its record list.
C9_NoPropagation ==
    failures \subseteq {"timeout", "connection", "status"}
    => /\ ~raised
       /\ pc = "done" => returned = all_data

\* A sweep that met all three kinds of failure and returned.
C9_Witness ==
    /\ pc = "done" /\ ~raised
    /\ failures = {"timeout", "connection", "status"}
    /\ LastEvent.ev = "err"

\* ---------------------------------------------------------------- C10
\* C10: the first request is for page 1; each later request is for the page
\* of the request before it when that one failed and for the next page when
\* it succeeded; the records are held in server response order.
C10_PageOrder ==
    /\ \A j \in GetIdx :
          IF \A i \in GetIdx : i >= j
          THEN log[j].pagina = 1
          ELSE LET prev == CHOOSE i \in GetIdx :
                              i < j /\ \A k \in GetIdx : k < j => k <= i
               IN  /\ log[prev + 1].ev = "err" => log[j].pagina = log[prev].pagina
                   /\ log[prev + 1].ev = "ok" => log[j].pagina = log[prev].pagina + 1
                   /\ log[prev + 1].ev \in {"err", "ok"}
    /\ \A a \in 1..(Len(all_data) - 1) :
          \/ all_data[a][1] < all_data[a + 1][1]
          \/ all_data[a][1] = all_data[a + 1][1] /\ all_data[a][2] + 1 = all_data[a + 1][2]
    /\ all_data # <<>> => all_data[1] = <<1, 1>>
    /\ pc = "done" /\ ~raised => returned = all_data

\* A sweep that retried page 1, then went through pages 2 and 3.
C10_Witness ==
    /\ pc = "done"
    /\ CountEv("get", 1, Len(log)) >= 2
    /\ PagesRequested = 1..3
    /\ Len(returned) >= 3

\* ---------------------------------------------------------------- C19
\* C19: the 0.5 s courtesy delay is applied only between a successful page
\* fetch and a following request of the same sweep: in a finished sweep every
\* such delay is followed by a request, however the sweep ended.
C19_NoDelayAfterFinalPage ==
    pc = "done" =>
    \A i \in DOMAIN log :
        (log[i].ev = "sleep" /\ log[i].ms = 500)
        => i < Len(log) /\ log[i + 1].ev = "get"

\* ------------------------------------------------------- the quarter sweeps
\* The calendar: the days of a year as <<year, month, day>>, in ISO order.
LeapYear(ano) == (ano % 4 = 0 /\ ano % 100 /= 0) \/ ano % 400 = 0
DaysIn(ano, m) ==
    IF m = 2 THEN (IF LeapYear(ano) THEN 29 ELSE 28)
    ELSE IF m \in {4, 6, 9, 11} THEN 30 ELSE 31
YearDays(ano) ==
    UNION {{<<ano, m, d>> : d \in 1..DaysIn(ano, m)} : m \in 1..12}
DateLeq(a, b) ==
    \/ a[1] < b[1]
    \/ a[1] = b[1] /\ a[2] < b[2]
    \/ a[1] = b[1] /\ a[2] = b[2] /\ a[3] <= b[3]
InWindow(day, w) ==
    DateLeq(w.dataVigenciaInicialMin, day) /\ DateLeq(day, w.dataVigenciaInicialMax)

\* The window of quarter k as the specification states it.
QuarterWindow(ano, k) ==
    [dataVigenciaInicialMin |-> <<ano, 3 * k - 2, 1>>,
     dataVigenciaInicialMax |-> <<ano, 3 * k, IF k \in {1, 4} THEN 31 ELSE 30>>]

\* The filters the sweeps of the history put in their requests.
WindowsRequested == UNION {hist[k].pedidos : k \in DOMAIN hist}

\* ---------------------------------------------------------------- C11
\* C11: when extract_contratos_por_trimestre has run its sweeps, the date
\* windows its requests carried are [01-01,03-31], [04-01,06-30],
\* [07-01,09-30] and [10-01,12-31] of the year asked for, and every day of
\* that year lies in exactly one of them.
C11_QuarterWindowsPartitionYear ==
    cpc = "fim" =>
        /\ WindowsRequested = {QuarterWindow(args.ano, k) : k \in 1..4}
        /\ \A day \in YearDays(args.ano) :
               Cardinality({w \in WindowsRequested : InWindow(day, w)}) = 1

C11_Witness ==
    /\ cpc = "fim"
    /\ LeapYear(args.ano)
    /\ Cardinality(WindowsRequested) = 4
    /\ Cardinality(YearDays(args.ano)) = 366

\* ---------------------------------------------------------------- C12
\* C12: the sweeps of extract_contratos_por_trimestre run in the order Q1,
\* Q2, Q3, Q4, one after the other (the k-th sweep that returned sent only
\* requests of quarter k, and the sweep that is running sends only requests
\* of the next quarter), and the aggregate is the concatenation, in that
\* order, of what the sweeps returned.
RECURSIVE ConcatWindows(_)
ConcatWindows(k) ==
    IF k = 0 THEN <<>>
    ELSE ConcatWindows(k - 1) \o
         [j \in DOMAIN hist[k].value |-> <<k>> \o hist[k].value[j]]

C12_QuarterOrder ==
    cpc \in {"trimestre", "fim", "raised"} =>
        /\ \A k \in DOMAIN hist : hist[k].pedidos = {QuarterWindow(args.ano, k)}
        /\ \A i \in DOMAIN log :
               (cpc = "trimestre" /\ log[i].ev = "get")
               => log[i].filtros = QuarterWindow(args.ano, Len(hist) + 1)
        /\ loc.todos_contratos =
               ConcatWindows(IF cpc = "raised" THEN Len(hist) - 1 ELSE Len(hist))
        /\ cpc = "fim" => Len(hist) = 4 /\ saida = ConcatWindows(4)

C12_Witness ==
    /\ cpc = "fim"
    /\ Len(hist[1].value) = 2
    /\ Len(hist[2].value) = 1
    /\ hist[3].outcome = "exhausted"
    /\ Len(saida) = 5

\* ---------------------------------------------------------------- C20
\* C20: the value a sweep returns tells a sweep cut short by retry exhaustion
\* from one that ended normally: of the sweeps one caller ran, one that was
\* cut short and one that ended normally never returned the same value.
C20_OutcomeVisibleInValue ==
    \A i, j \in DOMAIN hist :
        (hist[i].outcome = "exhausted" /\ hist[j].outcome = "ok")
        => hist[i].value /= hist[j].value

\* ------------------------------------------------------------ the lookups
\* The filters of every request sent so far, and the key a lookup's filter
\* carries, as text.
Requested == WindowsRequested \cup {log[i].filtros : i \in GetIdx}
KeyOf(f) ==
    IF "cpf" \in DOMAIN f THEN f.cpf
    ELSE IF "cnpj" \in DOMAIN f THEN f.cnpj
    ELSE f.codigoOrgao.s
CountSweeps(key) ==
    Cardinality({h \in DOMAIN hist : \E f \in hist[h].pedidos : KeyOf(f) = key})

\* The text of an identifier without its blanks.
IdText(x) ==
    SelectSeq(IF x.t = "str" THEN x.s ELSE <<"n", "a", "n">>, LAMBDA c : c /= " ")
Digits == {"0", "1", "2", "3", "4", "5", "6", "7", "8", "9"}
Normalized(x) == x.t = "str" /\ x.s /= <<>> /\ \A k \in DOMAIN x.s : x.s[k] \in Digits

\* ---------------------------------------------------------------- C14
\* C14: in extract_fornecedores_por_id every identifier of the list falls in
\* exactly one class: empty or 'nan' after trimming, it is in no request; of
\* length <= 11, it is looked up with cpf and never with cnpj; of length > 11,
\* it is looked up with cnpj and never with cpf.
C14_SupplierClasses ==
    (args.fn = "extract_fornecedores_por_id" /\ cpc /= "call") =>
    \A k \in DOMAIN args.lista :
        LET s == IdText(args.lista[k])
            asCpf == \E f \in Requested : "cpf" \in DOMAIN f /\ f.cpf = s
            asCnpj == \E f \in Requested : "cnpj" \in DOMAIN f /\ f.cnpj = s
            excluded == s = <<>> \/ s = <<"n", "a", "n">>
        IN  /\ excluded => ~asCpf /\ ~asCnpj
            /\ (~excluded /\ Len(s) <= 11) => ~asCnpj /\ (cpc = "fim" => asCpf)
            /\ (~excluded /\ Len(s) > 11) => ~asCpf /\ (cpc = "fim" => asCnpj)
            /\ Cardinality({c \in {"cpfs", "cnpjs", "invalidos"} :
                               \E j \in DOMAIN loc[c] : loc[c][j] = s}) = 1

C14_Witness ==
    /\ args.fn = "extract_fornecedores_por_id"
    /\ cpc = "fim"
    /\ Len(args.lista) = 2
    /\ Len(args.lista[1].s) = 13 /\ Len(IdText(args.lista[1])) = 11
    /\ Len(IdText(args.lista[2])) = 12
    /\ Len(hist) = 2

\* ---------------------------------------------------------------- C15
\* C15: when extract_orgao_por_codigo or extract_fornecedores_por_id, called
\* with normalized keys, has returned, every distinct key of the list had
\* exactly one sweep and there was no other sweep, whether the lookups of the
\* other keys returned data, returned nothing, exhausted their retries or
\* raised.
C15_EveryKeyOneSweep ==
    (/\ cpc = "fim"
     /\ args.fn \in {"extract_orgao_por_codigo", "extract_fornecedores_por_id"}
     /\ \A k \in DOMAIN args.lista : Normalized(args.lista[k]))
    => /\ \A k \in DOMAIN args.lista : CountSweeps(args.lista[k].s) = 1
       /\ Len(hist) = Cardinality({args.lista[k] : k \in DOMAIN args.lista})

C15_Witness ==
    /\ cpc = "fim"
    /\ args.fn = "extract_fornecedores_por_id"
    /\ \A k \in DOMAIN args.lista : Normalized(args.lista[k])
    /\ Len(hist) = 2
    /\ {hist[1].outcome, hist[2].outcome} \in {{"raised", "ok"}, {"exhausted", "ok"}}
    /\ hist[1].outcome /= "ok"
    /\ hist[2].value /= <<>>

\* ---------------------------------------------------------------- C16
\* C16: the error tally a lookup function reports at its end equals the number
\* of its lookups that failed: those whose page fetch failed on every attempt
\* and those that raised.
C16_TallyCountsFailedLookups ==
    (/\ cpc = "fim"
     /\ args.fn \in {"extract_orgao_por_codigo", "extract_fornecedores_por_id"}
     /\ hist /= <<>>)
    => (IF args.fn = "extract_orgao_por_codigo" THEN loc.erros
        ELSE loc.erros_cpf + loc.erros_cnpj)
       = Cardinality({h \in DOMAIN hist : hist[h].outcome \in {"exhausted", "raised"}})

\* ---------------------------------------------------------------- C13
\* C13: in extract_dados_relacionados a key type whose column holds no valid
\* key (the records are None or empty, the column is missing, or its cells are
\* missing values or, for suppliers, blank) gets no request at all and an empty
\* result; with no records the three results are empty and nothing is sent.
ValidKeys(df, col) ==
    IF df.nulo \/ col \notin df.presentes THEN {}
    ELSE {df.colunas[col][k] : k \in
            {j \in 1..df.linhas :
                /\ df.colunas[col][j].t = "str"
                /\ col = "niFornecedor" =>
                      IdText(df.colunas[col][j]) \notin {<<>>, <<"n", "a", "n">>}}}
NoRequestTo(e) ==
    /\ \A h \in DOMAIN hist : hist[h].endpoint = e => hist[h].pedidos = {}
    /\ endpoint = e => GetIdx = {}
TypeEmpty(df, col, e, campo) ==
    ValidKeys(df, col) = {} =>
        /\ NoRequestTo(e)
        /\ pc \in {"start", "attempt", "wait", "done"} => endpoint /= e
        /\ cpc = "fim" => saida[campo] = <<>>

C13_EmptyKeysNoRequests ==
    args.fn = "extract_dados_relacionados" =>
        /\ TypeEmpty(args.contratos_df, "codigoUnidadeRealizadoraCompra",
                     "modulo-uasg/1_consultarUasg", "uasg_df")
        /\ TypeEmpty(args.contratos_df, "codigoOrgao",
                     "modulo-uasg/2_consultarOrgao", "orgao_df")
        /\ TypeEmpty(args.contratos_df, "niFornecedor",
                     "modulo-fornecedor/1_consultarFornecedor", "fornecedores_df")
        /\ (args.contratos_df.nulo \/ args.contratos_df.linhas = 0)
           => /\ hist = <<>> /\ log = <<>>
              /\ cpc = "fim" => \A campo \in DOMAIN saida : saida[campo] = <<>>

C13_Witness ==
    /\ args.fn = "extract_dados_relacionados"
    /\ cpc = "fim"
    /\ args.contratos_df.linhas = 2
    /\ args.contratos_df.presentes = {"codigoUnidadeRealizadoraCompra", "niFornecedor"}
    /\ ValidKeys(args.contratos_df, "codigoUnidadeRealizadoraCompra") = {}
    /\ args.contratos_df.colunas["niFornecedor"][1].s = <<>>
    /\ Len(hist) = 1
    /\ hist[1].endpoint = "modulo-fornecedor/1_consultarFornecedor"
    /\ saida.fornecedores_df /= <<>>

\* ---------------------------------------------------------------- C17
\* C17: extract_uasg_por_codigo with a non-empty code list runs exactly one
\* sweep, whatever the server holds: as long as no sweep failed, and counting
\* the sweep that is running, there is never a second one, and the sweep's
\* requests carry all the distinct codes joined by commas.
C17_OneUasgSweep ==
    (/\ args.fn = "extract_uasg_por_codigo"
     /\ args.lista /= <<>>
     /\ \A h \in DOMAIN hist : hist[h].outcome = "ok") =>
        /\ Len(hist) + (IF pc \in {"start", "attempt", "wait", "done"} THEN 1 ELSE 0) <= 1
        /\ \A f \in Requested :
               /\ "codigoUasg" \in DOMAIN f
               /\ \A k \in DOMAIN args.lista :
                      \E i \in 1..(Len(f.codigoUasg) - 5) :
                          SubSeq(f.codigoUasg, i, i + 5) = args.lista[k].s
               /\ Len(f.codigoUasg) =
                      7 * Cardinality({args.lista[k] : k \in DOMAIN args.lista}) - 1

\* ---------------------------------------------------------------- C18
\* C18: no request is issued by a call whose filters lack a parameter its
\* endpoint mandates (the two ends of the date range for contracts, statusUasg
\* for units, statusOrgao for bodies): such a call ends by an error before it
\* sends anything.
C18_NoRequestWithoutMandatoryFilter ==
    \A i \in GetIdx :
        LET f == log[i].filtros
        IN  /\ endpoint = "modulo-contratos/1_consultarContratos"
               => {"dataVigenciaInicialMin", "dataVigenciaInicialMax"} \subseteq DOMAIN f
            /\ endpoint = "modulo-uasg/1_consultarUasg" => "statusUasg" \in DOMAIN f
            /\ endpoint = "modulo-uasg/2_consultarOrgao" => "statusOrgao" \in DOMAIN f

\* ---------------------------------------------------------------- C22
\* C22: the retry counter is reset for every page: while a page is being
\* fetched the counter equals the number of failures of that page alone, no
\* page is attempted more than max_retries times, and a sweep that gave up did
\* so after max_retries failures of the page it gave up on.
C22_RetryResetPerPage ==
    /\ pc \in {"attempt", "wait"} => retry = CountEv("err", current_page, Len(log))
    /\ \A p \in PagesRequested : CountEv("get", p, Len(log)) <= max_retries
    /\ (pc = "done" /\ ~raised /\ log /= <<>> /\ LastEvent.ev = "err")
          => CountEv("err", LastEvent.pagina, Len(log)) = max_retries

\* Page 1 used all its attempts but one, and page 2 still got all of its own.
C22_Witness ==
    /\ pc = "done" /\ ~raised /\ max_retries >= 2
    /\ CountEv("err", 1, Len(log)) = max_retries - 1
    /\ LastEvent.ev = "err" /\ LastEvent.pagina = 2
    /\ CountEv("get", 2, Len(log)) = max_retries

\* ---------------------------------------------------------------- C23
\* C23: all the requests of one sweep, first attempts and retries alike, go
\* to the same endpoint with the same page size and the same filters; only
\* the page index differs between them.
C23_OnlyPageIndexVaries ==
    \A i \in GetIdx :
        /\ log[i].endpoint = log[1].endpoint
        /\ log[i].tamanhoPagina = log[1].tamanhoPagina
        /\ log[i].filtros = log[1].filtros

\* A sweep with filters that retried a page and requested a second one.
C23_Witness ==
    /\ pc = "done"
    /\ CountEv("get", 1, Len(log)) >= 2
    /\ 2 \in PagesRequested
    /\ DOMAIN log[1].filtros /= {}

\* ---------------------------------------------------------------- C25
\* C25: in extract.py, on an endpoint other than contracts, a successfully
\* fetched page with fewer records than the requested tamanhoPagina ends the
\* sweep: no request follows it.
C25_ShortPageEndsOtherEndpoints ==
    (variant = "extract" /\ endpoint /= "modulo-contratos/1_consultarContratos") =>
    \A i \in DOMAIN log :
        (log[i].ev = "ok" /\ log[i].n < params.tamanhoPagina)
        => \A j \in GetIdx : j < i

\* ---------------------------------------------------------------- C26
\* C26 as stated: a sweep whose budget is an exact multiple of the page size
\* and whose pages all came back full has requested page
\* max_records / page_size + 1 by the time it ends.
C26_ExtraPageRequested ==
    (/\ pc = "done" /\ page_size > 0 /\ failures = {}
     /\ max_records % page_size = 0
     /\ \A i \in DOMAIN log : log[i].ev = "ok" => log[i].n = params.tamanhoPagina)
    => (max_records \div page_size) + 1 \in PagesRequested

\* C26, amended: when max_records is an exact multiple of page_size, no sweep
\* requests a page beyond page max_records / page_size, whatever the server
\* answers; the page max_records / page_size + 1 that max_pages allows for is
\* never requested.
C26_NoPageBeyondBudget ==
    (page_size > 0 /\ max_records % page_size = 0)
    => /\ max_pages = (max_records \div page_size) + 1
       /\ \A p \in PagesRequested : p <= max_records \div page_size

\* Full pages up to the budget, a multiple of the page size: the sweep ended
\* on page max_records / page_size with one more page left in the loop's range.
C26_Witness ==
    /\ pc = "done" /\ page_size > 0 /\ failures = {}
    /\ max_records % page_size = 0
    /\ max_records \div page_size >= 2
    /\ \A i \in DOMAIN log : log[i].ev = "ok" => log[i].n = params.tamanhoPagina
    /\ PagesRequested = 1..(max_records \div page_size)
    /\ Len(returned) = max_records

\* ---------------------------------------------------------------- C28
\* C28: against a static dataset, at every point of a sweep all_data is the
\* concatenation of the server's pages 1..k, k being the number of pages
\* fetched successfully so far: each of these pages answered once, a failed
\* attempt added nothing, and the list returned is that prefix of the
\* server's data.
C28_AccumulatorIsPrefix ==
    (server.mode = "static" /\ pc /= "start") =>
        LET T == params.tamanhoPagina
            k == Cardinality({i \in DOMAIN log : log[i].ev = "ok"})
        IN  /\ \A p \in 1..k : CountEv("ok", p, Len(log)) = 1
            /\ Len(all_data) = (IF server.n <= k * T THEN server.n ELSE k * T)
            /\ \A j \in DOMAIN all_data :
                   all_data[j] = <<((j - 1) \div T) + 1, ((j - 1) % T) + 1>>
            /\ (pc = "done" /\ ~raised) => returned = all_data

\* Two pages of a static dataset fetched, the first after a failed attempt,
\* and the sweep given up on the third page.
C28_Witness ==
    /\ server.mode = "static" /\ pc = "done" /\ ~raised
    /\ CountEv("err", 1, Len(log)) >= 1
    /\ CountEv("ok", 2, Len(log)) = 1
    /\ LastEvent.ev = "err" /\ LastEvent.pagina = 3
    /\ Len(returned) = 2 * params.tamanhoPagina
    /\ Len(returned) < server.n

\* ---------------------------------------------------------------- C29
\* C29: in extract_contratos_por_trimestre a quarter whose sweep gave up or
\* returned nothing does not stop the extraction: the function ends only
\* after the four sweeps (or by an exception of a sweep), every sweep runs
\* with the whole per-quarter budget and starts at page 1 counting from zero,
\* and what the earlier quarters returned stays in the aggregate.
C29_QuartersIndependent ==
    cpc \in {"trimestre", "fim", "raised"} =>
        /\ cpc = "fim" => Len(hist) = 4
        /\ cpc = "raised" => hist[Len(hist)].outcome = "raised"
        /\ \A k \in DOMAIN hist : k < Len(hist) => hist[k].outcome /= "raised"
        /\ cpc = "trimestre" =>
               /\ max_records = args.contratos_por_trimestre
               /\ log /= <<>> => log[1].ev = "get" /\ log[1].pagina = 1
               /\ pc \in {"attempt", "wait"} => total_records = Len(all_data)
               /\ Len(all_data) <= Cardinality({i \in DOMAIN log : log[i].ev = "ok"})
                                     * server.n
        /\ \A k \in DOMAIN hist : \A j \in DOMAIN hist[k].value :
               hist[k].outcome /= "raised"
               => \E m \in DOMAIN loc.todos_contratos :
                      loc.todos_contratos[m] = <<k>> \o hist[k].value[j]

\* The first quarter gave up with nothing, the second came back empty, and
\* the third and the fourth were still swept, the third with its own records.
C29_Witness ==
    /\ cpc = "fim"
    /\ hist[1].outcome = "exhausted" /\ hist[1].value = <<>>
    /\ hist[2].outcome = "ok" /\ hist[2].value = <<>>
    /\ hist[3].value /= <<>>
    /\ Len(saida) = Len(hist[3].value) + Len(hist[4].value)

\* ---------------------------------------------------------------- C21
\* C21: extract_uasg_por_codigo terminates whatever the server does: its
\* while loop eventually reaches its end and the function returns.
C21_UasgTerminates == <>(cpc = "fim")

\* ---------------------------------------------------------------- C27
\* Sizes of the server's dataset, among them a million records and more.
DatasetSizes == {10000, 1000000, 10000000}

\* C27: a sweep that extract_uasg or extract_orgao starts with
\* max_records=None has no record count at which it stops: whatever the size
\* of the server's dataset, the budget the sweep runs with is not reached by
\* the dataset's records and the page loop has a page for each of them.
C27_NoRecordLimit ==
    (/\ cpc = "wrapper"
     /\ args.fn \in {"extract_uasg", "extract_orgao"}
     /\ args.max_records = 0
     /\ pc \in {"attempt", "wait"}) =>
        \A N \in DatasetSizes :
            /\ N < max_records
            /\ (N \div params.tamanhoPagina) + 1 <= max_pages

\* ---------------------------------------------------------------- C24
\* The comma-separated pieces of a text.
RECURSIVE Pieces(_)
Pieces(s) ==
    IF \E i \in DOMAIN s : s[i] = ","
    THEN LET i == CHOOSE k \in DOMAIN s : s[k] = "," /\ \A j \in 1..(k - 1) : s[j] /= ","
         IN  {SubSeq(s, 1, i - 1)} \cup Pieces(SubSeq(s, i + 1, Len(s)))
    ELSE {s}

\* The keys the raw records hold in a column: the text, without the blanks
\* around it, of every cell that is a string, not empty, not blank and not
\* the placeholder 'nan'.
RawKeys(df, col) ==
    {Strip(df.colunas[col][k].s) : k \in
        {j \in 1..df.linhas :
            /\ df.colunas[col][j].t = "str"
            /\ Strip(df.colunas[col][j].s) \notin {<<>>, <<"n", "a", "n">>}}}

\* C24: after transform_contratos_basico and extract_dados_relacionados a
\* record whose unit code, body code or supplier ID is null, missing, empty,
\* blank or 'nan' gives no key: every key a lookup request carries is the
\* text of a real value of the raw records' column.
C24_NoPlaceholderKey ==
    args.fn = "extract_dados_relacionados" =>
        \A f \in Requested :
            /\ "codigoUasg" \in DOMAIN f =>
                  Pieces(f.codigoUasg) \subseteq RawKeys(args.df, "codigoUnidadeRealizadoraCompra")
            /\ "codigoOrgao" \in DOMAIN f =>
                  f.codigoOrgao.s \in RawKeys(args.df, "codigoOrgao")
            /\ "cpf" \in DOMAIN f => f.cpf \in RawKeys(args.df, "niFornecedor")
            /\ "cnpj" \in DOMAIN f => f.cnpj \in RawKeys(args.df, "niFornecedor")
====
